---- MODULE Spec2Model ----
(***************************************************************************)
(* Key management and program-derived-address derivation of solana-go      *)
(* (keys.go).  Byte strings are sequences over 0..255, a PublicKey is a    *)
(* sequence of PublicKeyLength bytes, a [][]byte slice is a backing array  *)
(* plus a length.  sha256.Sum256 and the edwards25519 point decoder are    *)
(* library primitives: the digest is computed by a small order-sensitive   *)
(* compression function and the set of byte strings that decode to a curve *)
(* point is an arbitrary set fixed at start-up.  base58 is computed digit  *)
(* by digit on texts given as character codes.                             *)
(***************************************************************************)
EXTENDS Integers, Sequences, FiniteSets, TLC

\* ---------------------------------------------------------------- constants
PublicKeyLength == 32
MaxSeedLength == 32
MaxSeeds == 16
MaxUint8 == 255

\* "ProgramDerivedAddress"
PDA_MARKER ==
  <<80, 114, 111, 103, 114, 97, 109, 68, 101, 114, 105, 118, 101, 100,
    65, 100, 100, 114, 101, 115, 115>>

\* ------------------------------------------------------------------- bounds
\* number of distinct digests the compression function can produce
HashMod == 3
\* goroutines that may run side by side
NumProcs == 2
\* seeds the caller chooses freely in front of the fixed padding
MaxFree == 1

Procs == 1..NumProcs

\* ------------------------------------------------------------- byte strings
Repeat(b, n) == [i \in 1..n |-> b]

Min(a, b) == IF a < b THEN a ELSE b

\* PublicKey{} : the zero value of the array type
zeroPublicKey == Repeat(0, PublicKeyLength)

\* faulty variant: a short input is copied to the end of the array
PublicKeyFromBytes_RightAligned(in) ==
  LET byteCount == Len(in)
      max == Min(byteCount, PublicKeyLength)
      pad == PublicKeyLength - max
  IN  [i \in 1..PublicKeyLength |-> IF i <= pad THEN 0 ELSE in[i - pad]]

\* copy(out[:], in[0:max]) into a zeroed 32-byte array
PublicKeyFromBytes(in) ==
  LET byteCount == Len(in)
      max == Min(byteCount, PublicKeyLength)
  IN  IF byteCount = 0
      THEN zeroPublicKey
      ELSE [i \in 1..PublicKeyLength |-> IF i <= max THEN in[i] ELSE 0]

\* ------------------------------------------------------------------ sha256
HashMult == 5

\* Absorbing byte b takes the running state acc to
\* (acc * HashMult + b + 1) % HashMod.  Absorbing buf[lo..hi] in order is
\* therefore a map acc |-> (m * acc + c) % HashMod; Absorb returns <<m, c>>,
\* composing the maps of the two halves of the range.
RECURSIVE Absorb(_, _, _)
Absorb(buf, lo, hi) ==
  IF lo > hi
  THEN <<1, 0>>
  ELSE IF lo = hi
  THEN <<HashMult % HashMod, (buf[lo] + 1) % HashMod>>
  ELSE LET mid == (lo + hi) \div 2
           l == Absorb(buf, lo, mid)
           r == Absorb(buf, mid + 1, hi)
       IN  <<(l[1] * r[1]) % HashMod, (r[1] * l[2] + r[2]) % HashMod>>

Squeeze(acc) == [i \in 1..PublicKeyLength |-> (acc * 7 + i * 11) % 256]

\* sha256.Sum256(buf): a 32-byte digest of the whole buffer, in order
Sum256(buf) == Squeeze(Absorb(buf, 1, Len(buf))[2])

Digests == {Squeeze(a) : a \in 0..(HashMod - 1)}

\* -------------------------------------------------------------------- keys
\* The program ids are declared elsewhere in the package; keys.go uses them
\* by name only.  Apart from the system program id, which is the zero key,
\* each stands here as a key of its own: zero but for a first byte that
\* tells it from the others.
TaggedKey(t) == [i \in 1..PublicKeyLength |-> IF i = 1 THEN t ELSE 0]

BPFLoaderProgramID == TaggedKey(1)
BPFLoaderDeprecatedProgramID == TaggedKey(2)
FeatureProgramID == TaggedKey(3)
ConfigProgramID == TaggedKey(4)
StakeProgramID == TaggedKey(5)
VoteProgramID == TaggedKey(6)
Secp256k1ProgramID == TaggedKey(7)
SystemProgramID == zeroPublicKey
SysVarClockPubkey == TaggedKey(8)
SysVarEpochSchedulePubkey == TaggedKey(9)
SysVarFeesPubkey == TaggedKey(10)
SysVarInstructionsPubkey == TaggedKey(11)
SysVarRecentBlockHashesPubkey == TaggedKey(12)
SysVarRentPubkey == TaggedKey(13)
SysVarRewardsPubkey == TaggedKey(14)
SysVarSlotHashesPubkey == TaggedKey(15)
SysVarSlotHistoryPubkey == TaggedKey(16)
SysVarStakeHistoryPubkey == TaggedKey(17)

\* program ids outside the native list (keys_test.go uses the first one)
BPFLoaderUpgradeableProgramID == TaggedKey(200)
SeedPubkey == TaggedKey(201)

\* faulty variant: the scan stops one element early
Has_OffByOne(slice, pubkey) == \E i \in 1..(Len(slice) - 1) : slice[i] = pubkey

\* PublicKeySlice.Has: linear scan with Equals
Has(slice, pubkey) == \E i \in 1..Len(slice) : slice[i] = pubkey

nativeProgramIDs ==
  << BPFLoaderProgramID, BPFLoaderDeprecatedProgramID, FeatureProgramID,
     ConfigProgramID, StakeProgramID, VoteProgramID, Secp256k1ProgramID,
     SystemProgramID, SysVarClockPubkey, SysVarEpochSchedulePubkey,
     SysVarFeesPubkey, SysVarInstructionsPubkey,
     SysVarRecentBlockHashesPubkey, SysVarRentPubkey, SysVarRewardsPubkey,
     SysVarSlotHashesPubkey, SysVarSlotHistoryPubkey,
     SysVarStakeHistoryPubkey >>

\* ------------------------------------------------------------------ errors
\* An error value is what its Error() text is built from: the format and
\* the formatted operands.  nil is the value NoError.
NoError == [text |-> "<nil>", args |-> <<>>]
ErrorsNew(text) == [text |-> text, args |-> <<>>]
Errorf(text, args) == [text |-> text, args |-> args]

ErrTooManySeeds == ErrorsNew("Max seed length exceeded")
ErrSeedTooLong == ErrorsNew("Max seed length exceeded")
ErrIllegalOwner(programID) ==
  Errorf("illegal owner: %s is a native program", <<programID>>)
ErrInvalidSeeds == ErrorsNew("invalid seeds; address must fall off the curve")
ErrNotFound == ErrorsNew("unable to find a valid program address")

\* ------------------------------------------------------------------ base58
\* A text is the sequence of its character codes.  The alphabet is the
\* Bitcoin one: "123456789ABCDEFGHJKLMNPQRSTUVWXYZabcdefghijkmnopqrstuvwxyz".
BTCAlphabet ==
  <<49, 50, 51, 52, 53, 54, 55, 56, 57, 65, 66, 67, 68, 69, 70, 71, 72, 74,
    75, 76, 77, 78, 80, 81, 82, 83, 84, 85, 86, 87, 88, 89, 90, 97, 98, 99,
    100, 101, 102, 103, 104, 105, 106, 107, 109, 110, 111, 112, 113, 114,
    115, 116, 117, 118, 119, 120, 121, 122>>

\* the digit a character stands for, -1 for a character outside the alphabet
DigitOf(c) ==
  IF \E i \in 1..Len(BTCAlphabet) : BTCAlphabet[i] = c
  THEN (CHOOSE i \in 1..Len(BTCAlphabet) : BTCAlphabet[i] = c) - 1
  ELSE -1

\* how many elements equal to z stand at the front of s
Leading(s, z) ==
  LET other == {i \in 1..Len(s) : s[i] # z}
  IN  IF other = {} THEN Len(s)
      ELSE (CHOOSE i \in other : \A j \in other : i <= j) - 1

\* Reading the digits num[lo..hi], most significant first, takes the
\* remainder r that was carried in to (r * from + d) % to at every digit d,
\* which is a map r |-> (m * r + c) % to.  Prefixes gives, for every
\* position of the range, the pair <<m, c>> of the digits up to it.
RECURSIVE Prefixes(_, _, _, _, _)
Prefixes(num, lo, hi, from, to) ==
  IF lo = hi
  THEN << <<from % to, num[lo] % to>> >>
  ELSE LET mid == (lo + hi) \div 2
           l == Prefixes(num, lo, mid, from, to)
           r == Prefixes(num, mid + 1, hi, from, to)
           ll == l[Len(l)]
       IN  l \o [k \in 1..Len(r) |->
                   <<(r[k][1] * ll[1]) % to, (r[k][1] * ll[2] + r[k][2]) % to>>]

\* the number with digits num (not empty) divided by the number to:
\* << the digits of the quotient, the remainder >>
LongDiv(num, from, to) ==
  LET pre == Prefixes(num, 1, Len(num), from, to)
      carry(k) == IF k = 1 THEN 0 ELSE pre[k - 1][2]
  IN  << [k \in 1..Len(num) |-> (carry(k) * from + num[k]) \div to],
         pre[Len(num)][2] >>

\* the number with digits num in base from, written in base to without
\* leading zero digits (the number 0 has no digits)
RECURSIVE ToBase(_, _, _)
ToBase(num, from, to) ==
  LET z == Leading(num, 0)
  IN  IF z = Len(num)
      THEN <<>>
      ELSE LET qr == LongDiv(SubSeq(num, z + 1, Len(num)), from, to)
           IN  Append(ToBase(qr[1], from, to), qr[2])

\* faulty variant: the leading zero bytes get no character
Encode_NoZeros(bin) ==
  LET digits == ToBase(bin, 256, Len(BTCAlphabet))
  IN  [i \in 1..Len(digits) |-> BTCAlphabet[digits[i] + 1]]

\* base58.Encode: one '1' for every leading zero byte, then the digits
Encode(bin) ==
  LET digits == ToBase(bin, 256, Len(BTCAlphabet))
  IN  Repeat(BTCAlphabet[1], Leading(bin, 0))
        \o [i \in 1..Len(digits) |-> BTCAlphabet[digits[i] + 1]]

\* base58.Decode: the empty text and a text with a character outside the
\* alphabet are errors; else one zero byte for every leading '1', then the
\* bytes of the number
Decode(str) ==
  LET bad == {i \in 1..Len(str) : DigitOf(str[i]) = -1}
      first == CHOOSE i \in bad : \A j \in bad : i <= j
      digits == [i \in 1..Len(str) |-> DigitOf(str[i])]
  IN  IF Len(str) = 0
      THEN [bytes |-> <<>>, err |-> ErrorsNew("zero length string")]
      ELSE IF bad # {}
      THEN [bytes |-> <<>>,
            err |-> IF str[first] > 127
                    THEN ErrorsNew("high-bit set on invalid digit")
                    ELSE Errorf("invalid base58 digit (%q)", <<str[first]>>)]
      ELSE [bytes |-> Repeat(0, Leading(digits, 0))
                        \o ToBase(digits, Len(BTCAlphabet), 256),
            err |-> NoError]

\* ------------------------------------------------------- PublicKey and text
\* faulty variant: only a longer value is refused, a shorter one is padded
WrongLength_TooLongOnly(val) == Len(val) > PublicKeyLength

\* len(val) != PublicKeyLength
WrongLength(val) == Len(val) # PublicKeyLength

\* copy(out[:], val) into a zeroed array of PublicKeyLength bytes
CopyKey(val) ==
  [i \in 1..PublicKeyLength |-> IF i <= Len(val) THEN val[i] ELSE 0]

\* faulty variant: the bytes are copied before the length is tested
PublicKeyFromBase58_CopyFirst(in) ==
  LET d == Decode(in)
  IN  IF d.err # NoError
      THEN [bytes |-> zeroPublicKey, err |-> Errorf("decode: %w", <<d.err>>),
            panicked |-> FALSE]
      ELSE IF WrongLength(d.bytes)
      THEN [bytes |-> CopyKey(d.bytes),
            err |-> Errorf("invalid length, expected %v, got %d",
                           <<PublicKeyLength, Len(d.bytes)>>),
            panicked |-> FALSE]
      ELSE [bytes |-> CopyKey(d.bytes), err |-> NoError, panicked |-> FALSE]

PublicKeyFromBase58(in) ==
  LET d == Decode(in)
  IN  IF d.err # NoError
      THEN [bytes |-> zeroPublicKey, err |-> Errorf("decode: %w", <<d.err>>),
            panicked |-> FALSE]
      ELSE IF WrongLength(d.bytes)
      THEN [bytes |-> zeroPublicKey,
            err |-> Errorf("invalid length, expected %v, got %d",
                           <<PublicKeyLength, Len(d.bytes)>>),
            panicked |-> FALSE]
      ELSE [bytes |-> CopyKey(d.bytes), err |-> NoError, panicked |-> FALSE]

\* MustPublicKeyFromBase58: panic(err) when the decoding failed
MustPublicKeyFromBase58(in) ==
  LET out == PublicKeyFromBase58(in)
  IN  IF out.err # NoError
      THEN [bytes |-> <<>>, err |-> out.err, panicked |-> TRUE]
      ELSE out

\* PublicKey.MarshalText and PublicKey.String
MarshalText(p) == [bytes |-> Encode(p), err |-> NoError, panicked |-> FALSE]

String(p) == Encode(p)

\* PublicKey.UnmarshalText: *p is assigned also when the decoding failed
UnmarshalText(data) ==
  LET r == PublicKeyFromBase58(data)
  IN  IF r.err # NoError
      THEN [bytes |-> r.bytes,
            err |-> Errorf("invalid public key %q: %w", <<data, r.err>>),
            panicked |-> FALSE]
      ELSE r

\* ------------------------------------------------------------- PrivateKey
PrivateKeyFromBase58(privkey) ==
  LET d == Decode(privkey)
  IN  IF d.err # NoError
      THEN [bytes |-> <<>>, err |-> d.err, panicked |-> FALSE]
      ELSE [bytes |-> d.bytes, err |-> NoError, panicked |-> FALSE]

\* json.Unmarshal(content, &values) with values a []byte.  The contents
\* are JSON arrays of numbers, the literal null, and texts that are no JSON
\* value; a content is the sequence of its character codes.
WhiteSpace == {32, 9, 10, 13}

\* s without the white space around it
Trim(s) ==
  IF \A i \in 1..Len(s) : s[i] \in WhiteSpace
  THEN <<>>
  ELSE LET first == CHOOSE i \in 1..Len(s) :
                      s[i] \notin WhiteSpace
                        /\ \A j \in 1..(i - 1) : s[j] \in WhiteSpace
           last == CHOOSE i \in 1..Len(s) :
                     s[i] \notin WhiteSpace
                       /\ \A j \in (i + 1)..Len(s) : s[j] \in WhiteSpace
       IN  SubSeq(s, first, last)

\* the pieces of s[lo..hi] between its commas, in order
RECURSIVE Pieces(_, _, _)
Pieces(s, lo, hi) ==
  IF lo > hi
  THEN << <<>> >>
  ELSE IF lo = hi
  THEN IF s[lo] = 44 THEN << <<>>, <<>> >> ELSE << <<s[lo]>> >>
  ELSE LET mid == (lo + hi) \div 2
           l == Pieces(s, lo, mid)
           r == Pieces(s, mid + 1, hi)
       IN  (SubSeq(l, 1, Len(l) - 1) \o << l[Len(l)] \o r[1] >>)
             \o SubSeq(r, 2, Len(r))

\* the value of a number literal that fits a uint8, -1 for any other text
Uint8Of(e) ==
  LET n == Len(e)
      digit(i) == e[i] - 48
      v == IF n = 1 THEN digit(1)
           ELSE IF n = 2 THEN 10 * digit(1) + digit(2)
           ELSE 100 * digit(1) + 10 * digit(2) + digit(3)
  IN  IF n \in 1..3 /\ (\A i \in 1..n : e[i] \in 48..57)
           /\ (n > 1 => e[1] # 48) /\ v <= MaxUint8
      THEN v
      ELSE -1

\* the error of the decoder, whichever it is
ErrJson == ErrorsNew("json")

JsonUnmarshal(content) ==
  LET t == Trim(content)
      body == Trim(SubSeq(t, 2, Len(t) - 1))
      elems == Pieces(body, 1, Len(body))
      vals == [i \in 1..Len(elems) |-> Uint8Of(Trim(elems[i]))]
  IN  IF t = <<110, 117, 108, 108>>
      THEN [bytes |-> <<>>, err |-> NoError]
      ELSE IF Len(t) < 2 \/ t[1] # 91 \/ t[Len(t)] # 93
      THEN [bytes |-> <<>>, err |-> ErrJson]
      ELSE IF body = <<>>
      THEN [bytes |-> <<>>, err |-> NoError]
      ELSE IF \E i \in 1..Len(vals) : vals[i] = -1
      THEN [bytes |-> <<>>, err |-> ErrJson]
      ELSE [bytes |-> vals, err |-> NoError]

\* a file is [exists, content]: ioutil.ReadFile fails on a file that does
\* not exist
PrivateKeyFromSolanaKeygenFile(file) ==
  IF ~file.exists
  THEN [bytes |-> <<>>,
        err |-> Errorf("read keygen file: %w", <<ErrorsNew("open")>>),
        panicked |-> FALSE]
  ELSE LET u == JsonUnmarshal(file.content)
       IN  IF u.err # NoError
           THEN [bytes |-> <<>>,
                 err |-> Errorf("decode keygen file: %w", <<u.err>>),
                 panicked |-> FALSE]
           ELSE [bytes |-> u.bytes, err |-> NoError, panicked |-> FALSE]

\* ed25519.PrivateKey.Public: copy(publicKey, priv[32:]) into 32 zero bytes;
\* the slice expression priv[32:] panics when len(priv) < 32
Public(priv) ==
  IF Len(priv) < PublicKeyLength
  THEN [bytes |-> <<>>, err |-> NoError, panicked |-> TRUE]
  ELSE [bytes |-> [i \in 1..PublicKeyLength |->
                     IF PublicKeyLength + i <= Len(priv)
                     THEN priv[PublicKeyLength + i] ELSE 0],
        err |-> NoError, panicked |-> FALSE]

\* PrivateKey.PublicKey: copy(publicKey[:], pub)
PublicKey(k) ==
  LET pub == Public(k)
  IN  IF pub.panicked THEN pub
      ELSE [bytes |-> CopyKey(pub.bytes), err |-> NoError, panicked |-> FALSE]

\* len(Signature{}); the type is declared elsewhere in the package
SignatureLength == 2 * PublicKeyLength

\* ed25519.PrivateKey.Sign with crypto.Hash(0): it panics ("bad private key
\* length") unless len(priv) is 64, reads no randomness and returns no
\* error; the 64 bytes of the signature are two digests here
Ed25519Sign(priv, message) ==
  IF Len(priv) # 2 * PublicKeyLength
  THEN [bytes |-> <<>>, err |-> NoError, panicked |-> TRUE]
  ELSE [bytes |-> Sum256(priv \o message) \o Sum256(message \o priv),
        err |-> NoError, panicked |-> FALSE]

\* PrivateKey.Sign: copy(signature[:], signData) into a zeroed Signature
Sign(k, payload) ==
  LET signed == Ed25519Sign(k, payload)
  IN  IF signed.panicked THEN signed
      ELSE IF signed.err # NoError
      THEN [bytes |-> Repeat(0, SignatureLength), err |-> signed.err,
            panicked |-> FALSE]
      ELSE [bytes |-> [i \in 1..SignatureLength |->
                         IF i <= Len(signed.bytes) THEN signed.bytes[i] ELSE 0],
            err |-> signed.err, panicked |-> FALSE]

\* ed25519.GenerateKey: the private key is the 32-byte seed read from the
\* random source followed by the public key computed from it; the public
\* key of a seed is a digest of it here
GenerateKey(seed) == seed \o Sum256(seed)

NewRandomPrivateKey(randOK, seed) ==
  IF ~randOK
  THEN [bytes |-> <<>>, err |-> ErrorsNew("random source"), panicked |-> FALSE]
  ELSE [bytes |-> GenerateKey(seed), err |-> NoError, panicked |-> FALSE]

\* ------------------------------------------------------------------- state
VARIABLES
  curve,      \* the byte strings edwards25519 decodes to a point
  backing,    \* backing array of the caller's seeds slice (cap = its length)
  seedLen,    \* len of the caller's seeds slice
  pc,         \* per goroutine: "idle", "append", "create", "done"
  call,       \* per goroutine: the function it runs or has run
  inSeeds,    \* per goroutine: seeds handed to a direct CreateProgramAddress
  programID,  \* per goroutine: the owner argument
  bumpSeed,   \* per goroutine: the uint8 loop counter of FindProgramAddress
  arg,        \* per goroutine: the slice append returned
  ret,        \* per goroutine: the values returned
  attempts,   \* per goroutine: last seed of every CreateProgramAddress call
              \*                made by FindProgramAddress, in call order
  kcall,      \* the key operation that ran last, "none" before the first
  kargs,      \* its arguments, each a byte string
  kret,       \* what it returned: bytes, error, and whether it panicked
  seen,       \* for a few calls: every outcome the call has had so far
  reserved,   \* the package variable nativeProgramIDs
  keySlice    \* a PublicKeySlice variable of a caller of the package

keyVars == <<kcall, kargs, kret, seen, reserved, keySlice>>

pdaVars ==
  << backing, seedLen, pc, call, inSeeds, programID, bumpSeed, arg, ret,
     attempts >>

vars ==
  << curve, backing, seedLen, pc, call, inSeeds, programID, bumpSeed, arg,
     ret, attempts, kcall, kargs, kret, seen, reserved, keySlice >>

\* ------------------------------------------------------ CreateProgramAddress
\* return nativeProgramIDs.Has(key)
isNativeProgramID(key) == Has(reserved, key)

\* new(edwards25519.Point).SetBytes(b) returns a nil error
IsOnCurve(b) == b \in curve

\* faulty variant: each seed is written behind its length
RECURSIVE AppendSeeds_LengthPrefixed(_, _, _)
AppendSeeds_LengthPrefixed(buf, seeds, i) ==
  IF i > Len(seeds)
  THEN buf
  ELSE AppendSeeds_LengthPrefixed((buf \o <<Len(seeds[i])>>) \o seeds[i], seeds, i + 1)

\* for _, seed := range seeds { buf = append(buf, seed...) }
RECURSIVE AppendSeeds(_, _, _)
AppendSeeds(buf, seeds, i) ==
  IF i > Len(seeds) THEN buf ELSE AppendSeeds(buf \o seeds[i], seeds, i + 1)

\* faulty variant: buf is shared with the scan in progress and still holds
\* the bump seed of its last attempt
HashInput_SharedBuf(seeds, owner) ==
  (((IF attempts[1] = <<>> THEN <<>> ELSE attempts[1][Len(attempts[1])])
      \o AppendSeeds(<<>>, seeds, 1)) \o owner) \o PDA_MARKER

\* faulty variant: the marker is left out of the buffer
HashInput_NoMarker(seeds, owner) == AppendSeeds(<<>>, seeds, 1) \o owner

\* the buffer that is hashed
HashInput(seeds, owner) == (AppendSeeds(<<>>, seeds, 1) \o owner) \o PDA_MARKER

\* faulty variant: one seed more is let through
SeedCountOK_Lenient(seeds) == Len(seeds) <= MaxSeeds + 1

\* len(seeds) > MaxSeeds does not hold
SeedCountOK(seeds) == ~(Len(seeds) > MaxSeeds)

\* faulty variant: >= in place of >
SeedLengthsOK_Strict(seeds) ==
  ~(\E i \in 1..Len(seeds) : Len(seeds[i]) >= MaxSeedLength)

\* no seed is longer than MaxSeedLength
SeedLengthsOK(seeds) == ~(\E i \in 1..Len(seeds) : Len(seeds[i]) > MaxSeedLength)

\* faulty variant: the test of err inverted: isOnCurve := err != nil
CurveCheck_Inverted(hash) ==
  IF ~IsOnCurve(hash)
  THEN [address |-> zeroPublicKey, err |-> ErrInvalidSeeds]
  ELSE [address |-> PublicKeyFromBytes(hash), err |-> NoError]

\* the curve test on the digest and the two returns that follow it
CurveCheck(hash) ==
  LET isOnCurve == IsOnCurve(hash)
  IN  IF isOnCurve
      THEN [address |-> zeroPublicKey, err |-> ErrInvalidSeeds]
      ELSE [address |-> PublicKeyFromBytes(hash), err |-> NoError]

\* faulty variant: the owner is tested before the seeds
CreateProgramAddress_OwnerFirst(seeds, owner) ==
  IF isNativeProgramID(owner)
  THEN [address |-> zeroPublicKey, err |-> ErrIllegalOwner(owner)]
  ELSE IF ~SeedCountOK(seeds)
  THEN [address |-> zeroPublicKey, err |-> ErrTooManySeeds]
  ELSE IF ~SeedLengthsOK(seeds)
  THEN [address |-> zeroPublicKey, err |-> ErrSeedTooLong]
  ELSE CurveCheck(Sum256(HashInput(seeds, owner)))

CreateProgramAddress(seeds, owner) ==
  IF ~SeedCountOK(seeds)
  THEN [address |-> zeroPublicKey, err |-> ErrTooManySeeds]
  ELSE IF ~SeedLengthsOK(seeds)
  THEN [address |-> zeroPublicKey, err |-> ErrSeedTooLong]
  ELSE IF isNativeProgramID(owner)
  THEN [address |-> zeroPublicKey, err |-> ErrIllegalOwner(owner)]
  ELSE CurveCheck(Sum256(HashInput(seeds, owner)))

\* ------------------------------------------------------------ CreateWithSeed
\* faulty variant: >= in place of >
SeedTooLong_Strict(seed) == Len(seed) >= MaxSeedLength

\* len(seed) > MaxSeedLength
SeedTooLong(seed) == Len(seed) > MaxSeedLength

\* faulty variant: the owner is appended before the seed
SeedBuffer_OwnerFirst(base, seed, owner) == (base \o owner) \o seed

\* b = append(b, base[:]...); b = append(b, seed[:]...); b = append(b, owner[:]...)
SeedBuffer(base, seed, owner) == (base \o seed) \o owner

CreateWithSeed(base, seed, owner) ==
  IF SeedTooLong(seed)
  THEN [bytes |-> zeroPublicKey, err |-> ErrorsNew("Max seed length exceeded"),
        panicked |-> FALSE]
  ELSE [bytes |-> PublicKeyFromBytes(Sum256(SeedBuffer(base, seed, owner))),
        err |-> NoError, panicked |-> FALSE]

\* ------------------------------------------------------------------ inputs
Seed32 == Repeat(7, MaxSeedLength)
Seed33 == Repeat(7, MaxSeedLength + 1)
SeedValues == {<<>>, <<1>>, Seed32, Seed33}

\* up to n seeds freely chosen among vals
FreeSeqs(vals, n) == UNION {[1..k -> vals] : k \in 0..n}

\* n one-byte seeds
Pad(n) == Repeat(<<4>>, n)

\* seeds handed to CreateProgramAddress: 0..MaxFree seeds, alone or behind
\* MaxSeeds - 1 or MaxSeeds seeds
CreateSeedInputs ==
  {Pad(n) \o s : n \in {0, MaxSeeds - 1, MaxSeeds}, s \in FreeSeqs(SeedValues, MaxFree)}

\* seeds handed to FindProgramAddress, which adds one more: 0..MaxFree
\* seeds alone, and none or one behind MaxSeeds - 1 seeds
FindSeedInputs ==
  FreeSeqs({Seed32, Seed33}, MaxFree)
    \cup {Pad(MaxSeeds - 1) \o s : s \in FreeSeqs({Seed32, Seed33}, 1)}

\* what the caller keeps behind the slice's length: nothing, or one more seed
SpareSlots == {<<>>, << <<9>> >>}

CallerSlices ==
  {[arr |-> s \o spare, len |-> Len(s)] : s \in FindSeedInputs, spare \in SpareSlots}

Natives == {nativeProgramIDs[i] : i \in 1..Len(nativeProgramIDs)}

CreateOwners == Natives \cup {BPFLoaderUpgradeableProgramID, SeedPubkey}

FindOwners == {SystemProgramID, BPFLoaderUpgradeableProgramID, SeedPubkey}

\* Calls that are made again and again, each with its arguments by value:
\* CreateProgramAddress(seeds, owner) as the seeds followed by the owner,
\* PrivateKey.PublicKey() as the key.  The seeds are also those a caller's
\* array holds before and after a scan has written a bump seed into it.
RepeatedCalls ==
  {[fn |-> "CreateProgramAddress", args |-> Append(seeds, owner)] :
     seeds \in {<<Seed32, <<9>> >>, <<Seed32, <<MaxUint8>> >>, <<Seed33>>},
     owner \in {BPFLoaderUpgradeableProgramID}}
    \cup {[fn |-> "CreateProgramAddress", args |-> <<SystemProgramID>>]}
    \cup {[fn |-> "PublicKey", args |-> <<k>>] :
            k \in {<<1>>, Repeat(2, PublicKeyLength) \o Repeat(3, PublicKeyLength)}}

NoReturn == [address |-> zeroPublicKey, bump |-> 0, err |-> NoError]
NoArg == [shared |-> FALSE, arr |-> <<>>]
NoKeyReturn == [bytes |-> <<>>, err |-> NoError, panicked |-> FALSE]

\* ------------------------------------------------------------------- Init
Idle ==
  /\ pc = [p \in Procs |-> "idle"]
  /\ call = [p \in Procs |-> "none"]
  /\ inSeeds = [p \in Procs |-> <<>>]
  /\ programID = [p \in Procs |-> zeroPublicKey]
  /\ bumpSeed = [p \in Procs |-> 0]
  /\ arg = [p \in Procs |-> NoArg]
  /\ ret = [p \in Procs |-> NoReturn]
  /\ attempts = [p \in Procs |-> <<>>]
  /\ kcall = "none"
  /\ kargs = <<>>
  /\ kret = NoKeyReturn
  /\ seen = [x \in RepeatedCalls |-> {}]
  /\ reserved = nativeProgramIDs
  /\ keySlice = <<>>

\* the digests taken to be on the curve: none, all, one, all but one
Curves ==
  {{}, Digests} \cup {{d} : d \in Digests} \cup {Digests \ {d} : d \in Digests}

Init ==
  /\ curve \in Curves
  /\ backing = <<>>
  /\ seedLen = 0
  /\ Idle

\* ------------------------------------------------------------- operations
\* a direct call of CreateProgramAddress(seeds, owner)
CallCreateProgramAddress(p) ==
  /\ pc[p] = "idle"
  /\ \E seeds \in CreateSeedInputs, owner \in CreateOwners :
       LET r == CreateProgramAddress(seeds, owner)
       IN  /\ inSeeds' = [inSeeds EXCEPT ![p] = seeds]
           /\ programID' = [programID EXCEPT ![p] = owner]
           /\ ret' = [ret EXCEPT ![p] =
                        [address |-> r.address, bump |-> 0, err |-> r.err]]
  /\ call' = [call EXCEPT ![p] = "CreateProgramAddress"]
  /\ pc' = [pc EXCEPT ![p] = "done"]
  /\ UNCHANGED <<curve, backing, seedLen, bumpSeed, arg, attempts>>
  /\ UNCHANGED keyVars

\* ------------------------------------------------------- FindProgramAddress
\* faulty variant: the scan starts one below the top
InitialBump_Off == MaxUint8 - 1

\* bumpSeed := uint8(math.MaxUint8)
InitialBump == MaxUint8

\* bumpSeed-- on a uint8
Decrement(b) == (b - 1) % (MaxUint8 + 1)

\* faulty variant: a test that a uint8 always passes
LoopTest_Always(b) == b >= 0

\* for bumpSeed != 0
LoopTest(b) == b # 0

\* faulty variant: if err != nil
Succeeded_Inverted(r) == r.err # NoError

\* if err == nil
Succeeded(r) == r.err = NoError

\* faulty variant: the bump is returned after the decrement
FoundReturn_Stale(r, b) == [address |-> r.address, bump |-> b - 1, err |-> NoError]

\* return address, bumpSeed, nil
FoundReturn(r, b) == [address |-> r.address, bump |-> b, err |-> NoError]

\* return PublicKey{}, bumpSeed, errors.New(...)
NotFoundReturn(b) == [address |-> zeroPublicKey, bump |-> b, err |-> ErrNotFound]

\* FindProgramAddress entered: bumpSeed is set and the loop test is made
EnterFind(p, owner) ==
  /\ pc[p] = "idle"
  /\ programID' = [programID EXCEPT ![p] = owner]
  /\ bumpSeed' = [bumpSeed EXCEPT ![p] = InitialBump]
  /\ call' = [call EXCEPT ![p] = "FindProgramAddress"]
  /\ pc' = [pc EXCEPT ![p] = IF LoopTest(InitialBump) THEN "append" ELSE "done"]
  /\ UNCHANGED <<curve, inSeeds, arg, ret, attempts>>
  /\ UNCHANGED keyVars

\* the caller builds a seeds slice and calls FindProgramAddress(seeds, owner)
CallFindProgramAddress(p) ==
  \E slice \in CallerSlices, owner \in FindOwners :
    /\ backing' = slice.arr
    /\ seedLen' = slice.len
    /\ EnterFind(p, owner)

\* append(seed, []byte{byte(bumpSeed)}): in place when len < cap, else a copy
FindAppend(p) ==
  /\ pc[p] = "append"
  /\ IF seedLen < Len(backing)
     THEN /\ backing' = [backing EXCEPT ![seedLen + 1] = <<bumpSeed[p]>>]
          /\ arg' = [arg EXCEPT ![p] = [shared |-> TRUE, arr |-> <<>>]]
     ELSE /\ arg' = [arg EXCEPT ![p] =
                       [shared |-> FALSE,
                        arr |-> Append(SubSeq(backing, 1, seedLen), <<bumpSeed[p]>>)]]
          /\ UNCHANGED backing
  /\ pc' = [pc EXCEPT ![p] = "create"]
  /\ UNCHANGED <<curve, seedLen, call, inSeeds, programID, bumpSeed, ret, attempts>>
  /\ UNCHANGED keyVars

\* the elements of the slice append returned, read when the callee runs
ArgSeeds(p) ==
  IF arg[p].shared THEN SubSeq(backing, 1, seedLen + 1) ELSE arg[p].arr

\* the rest of the loop body: the call, the test of err, bumpSeed--, and the
\* loop test with the return that follows the loop
FindCreate(p) ==
  /\ pc[p] = "create"
  /\ LET seeds == ArgSeeds(p)
         r == CreateProgramAddress(seeds, programID[p])
         next == Decrement(bumpSeed[p])
     IN  /\ attempts' = [attempts EXCEPT ![p] = Append(@, seeds[Len(seeds)])]
         /\ IF Succeeded(r)
            THEN /\ ret' = [ret EXCEPT ![p] = FoundReturn(r, bumpSeed[p])]
                 /\ pc' = [pc EXCEPT ![p] = "done"]
                 /\ UNCHANGED bumpSeed
            ELSE /\ bumpSeed' = [bumpSeed EXCEPT ![p] = next]
                 /\ IF LoopTest(next)
                    THEN /\ pc' = [pc EXCEPT ![p] = "append"]
                         /\ UNCHANGED ret
                    ELSE /\ pc' = [pc EXCEPT ![p] = "done"]
                         /\ ret' = [ret EXCEPT ![p] = NotFoundReturn(next)]
  /\ UNCHANGED <<curve, backing, seedLen, call, inSeeds, programID, arg>>
  /\ UNCHANGED keyVars

\* the caller takes the result and drops the call's values
Return(p) ==
  /\ pc[p] = "done"
  /\ backing' = <<>>
  /\ seedLen' = 0
  /\ pc' = [pc EXCEPT ![p] = "idle"]
  /\ call' = [call EXCEPT ![p] = "none"]
  /\ inSeeds' = [inSeeds EXCEPT ![p] = <<>>]
  /\ programID' = [programID EXCEPT ![p] = zeroPublicKey]
  /\ bumpSeed' = [bumpSeed EXCEPT ![p] = 0]
  /\ arg' = [arg EXCEPT ![p] = NoArg]
  /\ ret' = [ret EXCEPT ![p] = NoReturn]
  /\ attempts' = [attempts EXCEPT ![p] = <<>>]
  /\ UNCHANGED curve
  /\ UNCHANGED keyVars

Next ==
  \/ CallCreateProgramAddress(1)
  \/ CallFindProgramAddress(1)
  \/ FindAppend(1)
  \/ FindCreate(1)
  \/ Return(1)

Spec == Init /\ [][Next]_vars

\* ---------------------------------------------------------- derived helpers
\* program ids declared elsewhere in the package, outside the native list
TokenProgramID == TaggedKey(202)
SPLAssociatedTokenAccountProgramID == TaggedKey(203)
TokenMetadataProgramID == TaggedKey(204)

\* []byte("metadata")
MetadataText == <<109, 101, 116, 97, 100, 97, 116, 97>>

\* faulty variant: the token program id is left out
AssociatedSeeds_NoTokenProgram(walletAddress, splTokenMintAddress) ==
  <<walletAddress, splTokenMintAddress>>

\* [][]byte{walletAddress[:], TokenProgramID[:], splTokenMintAddress[:]}
AssociatedSeeds(walletAddress, splTokenMintAddress) ==
  <<walletAddress, TokenProgramID, splTokenMintAddress>>

\* [][]byte{[]byte("metadata"), TokenMetadataProgramID[:], mint[:]}
MetadataSeeds(mint) == <<MetadataText, TokenMetadataProgramID, mint>>

Wallets == {SeedPubkey, Repeat(255, PublicKeyLength)}
Mints == {TaggedKey(205), [i \in 1..PublicKeyLength |-> i]}

\* a helper builds its seeds, a slice literal whose capacity is its length,
\* and enters FindProgramAddress with them and its program id; the
\* helper's own arguments are kept in inSeeds
EnterHelper(p, name, args, seeds, owner) ==
  /\ backing' = seeds
  /\ seedLen' = Len(seeds)
  /\ inSeeds' = [inSeeds EXCEPT ![p] = args]
  /\ programID' = [programID EXCEPT ![p] = owner]
  /\ bumpSeed' = [bumpSeed EXCEPT ![p] = InitialBump]
  /\ call' = [call EXCEPT ![p] = name]
  /\ pc' = [pc EXCEPT ![p] = IF LoopTest(InitialBump) THEN "append" ELSE "done"]
  /\ UNCHANGED <<curve, arg, ret, attempts>>
  /\ UNCHANGED keyVars

CallFindAssociatedTokenAddress(p) ==
  \E wallet \in Wallets, mint \in Mints :
    /\ pc[p] = "idle"
    /\ EnterHelper(p, "FindAssociatedTokenAddress", <<wallet, mint>>,
                   AssociatedSeeds(wallet, mint),
                   SPLAssociatedTokenAccountProgramID)

CallFindTokenMetadataAddress(p) ==
  \E mint \in Mints :
    /\ pc[p] = "idle"
    /\ EnterHelper(p, "FindTokenMetadataAddress", <<mint>>,
                   MetadataSeeds(mint), TokenMetadataProgramID)

NextDerived ==
  \/ CallFindAssociatedTokenAddress(1)
  \/ CallFindTokenMetadataAddress(1)
  \/ FindAppend(1)
  \/ FindCreate(1)
  \/ Return(1)

SpecDerived == Init /\ [][NextDerived]_vars

\* ---------------------------------------------------- concurrent callers
\* Goroutines that were handed one seeds slice (same backing array) and call
\* FindProgramAddress on it, each with an owner of its own choice.  The
\* slices and owners are those on which a scan can succeed, and at most one
\* digest is on the curve, so that scans end after a few attempts; scans
\* that run to exhaustion are those of Spec.
SharedSlices ==
  {sl \in CallerSlices : SeedCountOK(Append(SubSeq(sl.arr, 1, sl.len), <<0>>))
                          /\ SeedLengthsOK(SubSeq(sl.arr, 1, sl.len))}

ConcOwners == FindOwners \ Natives

ConcCurves == {{}} \cup {{d} : d \in Digests}

InitConc ==
  /\ curve \in ConcCurves
  /\ \E sl \in SharedSlices : backing = sl.arr /\ seedLen = sl.len
  /\ Idle

\* a goroutine calls FindProgramAddress on the slice all goroutines share
GoFindProgramAddress(p) ==
  \E owner \in ConcOwners :
    /\ EnterFind(p, owner)
    /\ UNCHANGED <<backing, seedLen>>

NextConc ==
  \E p \in Procs :
    \/ GoFindProgramAddress(p)
    \/ FindAppend(p)
    \/ FindCreate(p)

SpecConc == InitConc /\ [][NextConc]_vars

\* ----------------------------------------------------------- key operations
\* The operations on keys run in one step each, in any order; the one that
\* ran last is kept with its arguments and its result.  They leave the
\* curve and the state of the address derivations alone.
Returned(name, args, r) ==
  /\ kcall' = name
  /\ kargs' = args
  /\ kret' = r
  /\ UNCHANGED <<seen, reserved, keySlice>>

Count(n) == [i \in 1..n |-> i]

KeyBases == {zeroPublicKey, SeedPubkey}

KeySeeds ==
  {<<>>, <<1>>, <<2, 1>>, Repeat(7, MaxSeedLength - 1), Seed32, Seed33,
   Repeat(7, MaxSeedLength + 8)}

KeyOwners ==
  {SystemProgramID, SysVarRentPubkey, BPFLoaderUpgradeableProgramID, SeedPubkey}

\* inputs of PublicKeyFromBytes: those of TestPublicKeyFromBytes and the
\* lengths next to PublicKeyLength
ByteInputs ==
  {<<>>, <<1, 2, 3, 4, 5, 6>>, Count(PublicKeyLength - 1),
   Count(PublicKeyLength), Count(PublicKeyLength + 1),
   Count(PublicKeyLength + 5), Repeat(255, PublicKeyLength),
   Repeat(0, PublicKeyLength + 1)}

\* In the actions below r is what the function returns on the arguments.
CallCreateWithSeed(base, seed, owner, r) ==
  /\ Returned("CreateWithSeed", <<base, seed, owner>>, r)
  /\ UNCHANGED <<curve, pdaVars>>

CallPublicKeyFromBytes(in, r) ==
  /\ Returned("PublicKeyFromBytes", <<in>>,
              [bytes |-> r, err |-> NoError, panicked |-> FALSE])
  /\ UNCHANGED <<curve, pdaVars>>

\* keys that are written as text: with and without leading zero bytes
KeySamples ==
  {zeroPublicKey, SeedPubkey, <<1, 2, 3, 4, 5, 6>> \o Repeat(0, 26),
   <<0, 0, 0, 5>> \o Repeat(9, 28), Count(PublicKeyLength),
   Repeat(255, PublicKeyLength)}

\* "SerumkegQfeZyiNwAJbNbGKPFXCWuBvf9Ss623VQ5DA"
SerumText ==
  <<
    83, 101, 114, 117, 109, 107, 101, 103, 81, 102, 101, 90, 121, 105,
    78, 119, 65, 74, 98, 78, 98, 71, 75, 80, 70, 88, 67, 87, 117, 66,
    118, 102, 57, 83, 115, 54, 50, 51, 86, 81, 53, 68, 65
  >>

\* "SerkegQfeZyiNwAJbNbGKPFXCWuBvf9Ss623VQ5DA"
SerkText ==
  <<
    83, 101, 114, 107, 101, 103, 81, 102, 101, 90, 121, 105, 78, 119,
    65, 74, 98, 78, 98, 71, 75, 80, 70, 88, 67, 87, 117, 66, 118, 102,
    57, 83, 115, 54, 50, 51, 86, 81, 53, 68, 65
  >>

\* byte strings that are not of the length of a key
OtherLengths ==
  {<<1>>, Count(PublicKeyLength - 1), Count(PublicKeyLength + 1),
   <<0>> \o Count(PublicKeyLength), Repeat(0, PublicKeyLength - 1),
   Repeat(0, PublicKeyLength + 1)}

\* characters outside the alphabet: '0', 'I', 'O', 'l', ' ', and a byte
\* with the high bit set
BadChars == {48, 73, 79, 108, 32, 200}

\* texts handed to the decoding operations
TextInputs ==
  {Encode(k) : k \in KeySamples} \cup {Encode(b) : b \in OtherLengths}
    \cup {SerumText, SerkText, <<>>}
    \cup {[SerumText EXCEPT ![3] = c] : c \in BadChars}
    \cup {Append(SerkText, c) : c \in BadChars}

CallPublicKeyFromBase58(in, r) ==
  /\ Returned("PublicKeyFromBase58", <<in>>, r)
  /\ UNCHANGED <<curve, pdaVars>>

CallUnmarshalText(data, r) ==
  /\ Returned("UnmarshalText", <<data>>, r)
  /\ UNCHANGED <<curve, pdaVars>>

\* keys that are written as text
TextKeys == KeySamples \cup {PublicKeyFromBase58(SerumText).bytes}

CallMarshalText(p, r) ==
  /\ Returned("MarshalText", <<p>>, r)
  /\ UNCHANGED <<curve, pdaVars>>

CallString(p, r) ==
  /\ Returned("String", <<p>>,
              [bytes |-> r, err |-> NoError, panicked |-> FALSE])
  /\ UNCHANGED <<curve, pdaVars>>

\* ed25519.PrivateKeySize
PrivateKeySize == 2 * PublicKeyLength

\* "66cDvko73yAf8LYvFMM3r8vF5vJtkk7JKMgEKwkmBC86oHdq41C7i1a2vS3zE1yCcdLLk6VUatUb32ZzVjSBXtRs"
KeygenText ==
  <<
    54, 54, 99, 68, 118, 107, 111, 55, 51, 121, 65, 102, 56, 76, 89,
    118, 70, 77, 77, 51, 114, 56, 118, 70, 53, 118, 74, 116, 107, 107,
    55, 74, 75, 77, 103, 69, 75, 119, 107, 109, 66, 67, 56, 54, 111, 72,
    100, 113, 52, 49, 67, 55, 105, 49, 97, 50, 118, 83, 51, 122, 69, 49,
    121, 67, 99, 100, 76, 76, 107, 54, 86, 85, 97, 116, 85, 98, 51, 50,
    90, 122, 86, 106, 83, 66, 88, 116, 82, 115
  >>

\* texts handed to PrivateKeyFromBase58: of a 64-byte key, of shorter and
\* longer values, the empty text, texts with a character outside the alphabet
PrivateTexts ==
  {KeygenText, Encode(<<1>>), Encode(Count(PublicKeyLength)),
   Encode(Count(PrivateKeySize - 1)), Encode(Count(PrivateKeySize + 1)),
   <<>>, <<50, 48>>, [KeygenText EXCEPT ![5] = 108]}

\* the decimal literal of v, for v below 1000
Decimal(v) ==
  IF v < 10 THEN <<48 + v>>
  ELSE IF v < 100 THEN <<48 + (v \div 10), 48 + (v % 10)>>
  ELSE <<48 + (v \div 100), 48 + ((v \div 10) % 10), 48 + (v % 10)>>

\* the literals of vals[lo..hi] with commas between them
RECURSIVE Joined(_, _, _)
Joined(vals, lo, hi) ==
  IF lo > hi THEN <<>>
  ELSE IF lo = hi THEN Decimal(vals[lo])
  ELSE LET mid == (lo + hi) \div 2
       IN  (Joined(vals, lo, mid) \o <<44>>) \o Joined(vals, mid + 1, hi)

\* the content solana-keygen writes for the bytes vals
JsonArrayText(vals) == (<<91>> \o Joined(vals, 1, Len(vals))) \o <<93>>

\* contents of keygen files: arrays of 64, 63, 65, 3 and 0 numbers, with
\* white space, null, a number that is no byte, and texts that are no JSON
KeygenContents ==
  {JsonArrayText(Decode(KeygenText).bytes), JsonArrayText(Count(PrivateKeySize)),
   JsonArrayText(Count(PrivateKeySize - 1)),
   JsonArrayText(Count(PrivateKeySize + 1)), JsonArrayText(<<1, 2, 3>>),
   <<91, 93>>, <<91, 32, 49, 44, 32, 50, 32, 93, 10>>,
   <<110, 117, 108, 108>>, JsonArrayText(<<1, 256>>),
   <<91, 49, 44, 50>>, <<91, 49, 44, 44, 50, 93>>, <<91, 48, 49, 93>>, <<>>}

KeygenFiles ==
  {[exists |-> TRUE, content |-> c] : c \in KeygenContents}
    \cup {[exists |-> FALSE, content |-> <<>>]}

\* seeds the random source may deliver
RandomSeeds == {Count(PublicKeyLength), Repeat(3, PublicKeyLength)}

CallPrivateKeyFromBase58(privkey, r) ==
  /\ Returned("PrivateKeyFromBase58", <<privkey>>, r)
  /\ UNCHANGED <<curve, pdaVars>>

CallPrivateKeyFromSolanaKeygenFile(file, r) ==
  /\ Returned("PrivateKeyFromSolanaKeygenFile",
              IF file.exists THEN <<file.content>> ELSE <<>>, r)
  /\ UNCHANGED <<curve, pdaVars>>

CallNewRandomPrivateKey(r) ==
  /\ Returned("NewRandomPrivateKey", <<>>, r)
  /\ UNCHANGED <<curve, pdaVars>>

\* a private key was returned by the operation that ran last
HoldsPrivateKey ==
  /\ kcall \in {"PrivateKeyFromBase58", "PrivateKeyFromSolanaKeygenFile",
                "NewRandomPrivateKey"}
  /\ kret.err = NoError

\* the caller derives the public key of the private key it was returned
CallPublicKey ==
  /\ HoldsPrivateKey
  /\ Returned("PublicKey", <<kret.bytes>>, PublicKey(kret.bytes))
  /\ UNCHANGED <<curve, pdaVars>>

\* messages that are signed
Payloads == {<<>>, <<1, 2, 3>>}

\* the caller signs a message with the private key it was returned
CallSign ==
  /\ HoldsPrivateKey
  /\ \E payload \in Payloads :
       Returned("Sign", <<kret.bytes, payload>>, Sign(kret.bytes, payload))
  /\ UNCHANGED <<curve, pdaVars>>

\* ------------------------------------------------------ commands of slnc
\* "TokenkegQfeZyiNwAJbNbGKPFXCWuBvf9Ss623VQ5DA"
TokenkegText ==
  <<
    84, 111, 107, 101, 110, 107, 101, 103, 81, 102, 101, 90, 121, 105,
    78, 119, 65, 74, 98, 78, 98, 71, 75, 80, 70, 88, 67, 87, 117, 66,
    118, 102, 57, 83, 115, 54, 50, 51, 86, 81, 53, 68, 65
  >>

\* A command of slnc runs up to the call of the RPC client: key is the
\* value it built for the call.  cobra.ExactArgs has checked the number of
\* the arguments; args[0] is the text the user typed.
\* get program-accounts {program_addr}
RunGetProgramAccounts(arg0, key) ==
  /\ Returned("getProgramAccountsCmd", <<arg0>>, key)
  /\ UNCHANGED <<curve, pdaVars>>

\* get balance {account_addr}
RunGetBalance(arg0, key) ==
  /\ Returned("getBalanceCmd", <<arg0>>, key)
  /\ UNCHANGED <<curve, pdaVars>>

\* get spl-token, which takes no argument
RunGetSPLToken(key) ==
  /\ Returned("getSPLTokenCmd", <<>>, key)
  /\ UNCHANGED <<curve, pdaVars>>

InitKeys ==
  /\ curve \in {{}, Digests}
  /\ backing = <<>>
  /\ seedLen = 0
  /\ Idle

NextKeys ==
  \/ \E base \in KeyBases, seed \in KeySeeds, owner \in KeyOwners :
       CallCreateWithSeed(base, seed, owner, CreateWithSeed(base, seed, owner))
  \/ \E in \in ByteInputs : CallPublicKeyFromBytes(in, PublicKeyFromBytes(in))
  \/ \E in \in TextInputs : CallPublicKeyFromBase58(in, PublicKeyFromBase58(in))
  \/ \E data \in TextInputs : CallUnmarshalText(data, UnmarshalText(data))
  \/ \E p \in TextKeys : CallMarshalText(p, MarshalText(p))
  \/ \E p \in TextKeys : CallString(p, String(p))
  \/ \E privkey \in PrivateTexts :
       CallPrivateKeyFromBase58(privkey, PrivateKeyFromBase58(privkey))
  \/ \E file \in KeygenFiles :
       CallPrivateKeyFromSolanaKeygenFile(file, PrivateKeyFromSolanaKeygenFile(file))
  \/ \E randOK \in BOOLEAN, seed \in RandomSeeds :
       CallNewRandomPrivateKey(NewRandomPrivateKey(randOK, seed))
  \/ CallPublicKey
  \/ CallSign
  \/ \E arg0 \in TextInputs :
       RunGetProgramAccounts(arg0, MustPublicKeyFromBase58(arg0))
  \/ \E arg0 \in TextInputs : RunGetBalance(arg0, MustPublicKeyFromBase58(arg0))
  \/ RunGetSPLToken(MustPublicKeyFromBase58(TokenkegText))

SpecKeys == InitKeys /\ [][NextKeys]_vars

\* --------------------------------------------------------- repeated calls
\* the outcome of the call x made now
Outcome(x) ==
  IF x.fn = "CreateProgramAddress"
  THEN LET n == Len(x.args)
           r == CreateProgramAddress(SubSeq(x.args, 1, n - 1), x.args[n])
       IN  [bytes |-> r.address, err |-> r.err, panicked |-> FALSE]
  ELSE PublicKey(x.args[1])

Observe(x) ==
  /\ seen' = [seen EXCEPT ![x] = @ \cup {Outcome(x)}]
  /\ UNCHANGED <<curve, pdaVars, kcall, kargs, kret, reserved, keySlice>>

\* CreateProgramAddress is called, at any moment, on seeds and an owner
RepeatCreateProgramAddress ==
  \E x \in RepeatedCalls : x.fn = "CreateProgramAddress" /\ Observe(x)

\* CreateProgramAddress is called on all that the caller's array holds, the
\* slot behind the slice's length included
CreateOnCallerArray ==
  \E x \in RepeatedCalls :
    /\ x.fn = "CreateProgramAddress"
    /\ x.args = Append(backing, BPFLoaderUpgradeableProgramID)
    /\ Observe(x)

\* PublicKey() is called, at any moment, on a private key
RepeatPublicKey ==
  \E x \in RepeatedCalls : x.fn = "PublicKey" /\ Observe(x)

\* The other operations that run before and between: scans of
\* FindProgramAddress, step by step, and an import.  The first scan is on a
\* caller's slice that holds the one seed Seed32, with or without a slot
\* behind its length.
InitRepeat ==
  /\ curve \in ConcCurves
  /\ \E sl \in SharedSlices :
       /\ SubSeq(sl.arr, 1, sl.len) = <<Seed32>>
       /\ backing = sl.arr
       /\ seedLen = sl.len
  /\ Idle

NextRepeat ==
  \/ RepeatCreateProgramAddress
  \/ CreateOnCallerArray
  \/ RepeatPublicKey
  \/ GoFindProgramAddress(1)
  \/ FindAppend(1)
  \/ FindCreate(1)
  \/ Return(1)
  \/ \E privkey \in {Encode(<<1>>)} :
       CallPrivateKeyFromBase58(privkey, PrivateKeyFromBase58(privkey))

SpecRepeat == InitRepeat /\ [][NextRepeat]_vars

\* ------------------------------------------------- decoding into a key
\* json.Unmarshal(data, &s) for a string s that is empty before the call:
\* null leaves s as it is, a string literal gives its text, anything else
\* is an error.  The literals here are ASCII and hold no escape sequence.
JsonUnmarshalString(data) ==
  LET t == Trim(data)
      inner == SubSeq(t, 2, Len(t) - 1)
  IN  IF t = <<110, 117, 108, 108>>
      THEN [s |-> <<>>, err |-> NoError]
      ELSE IF Len(t) < 2 \/ t[1] # 34 \/ t[Len(t)] # 34
      THEN [s |-> <<>>, err |-> ErrJson]
      ELSE IF \E i \in 1..Len(inner) : inner[i] = 34 \/ inner[i] < 32
      THEN [s |-> <<>>, err |-> ErrJson]
      ELSE [s |-> inner, err |-> NoError]

\* PublicKey.UnmarshalJSON on a receiver holding p: bytes is what the
\* receiver holds afterwards
UnmarshalJSON(p, data) ==
  LET j == JsonUnmarshalString(data)
      r == PublicKeyFromBase58(j.s)
  IN  IF j.err # NoError
      THEN [bytes |-> p, err |-> j.err, panicked |-> FALSE]
      ELSE IF r.err # NoError
      THEN [bytes |-> r.bytes,
            err |-> Errorf("invalid public key %q: %w", <<j.s, r.err>>),
            panicked |-> FALSE]
      ELSE r

\* what a receiver holds before the call
PriorKeys == {zeroPublicKey, SeedPubkey, Count(PublicKeyLength)}

\* the JSON string literal of an ASCII text
Quote(t) == (<<34>> \o t) \o <<34>>

\* texts decoded as JSON strings: the texts of TextInputs that are ASCII
QuotableTexts == {t \in TextInputs : \A i \in 1..Len(t) : t[i] \in 32..126}

\* JSON values that are not strings: 5, [1], {}, true, an unterminated
\* string, nothing at all
NotStrings ==
  {<<53>>, <<91, 49, 93>>, <<123, 125>>, <<116, 114, 117, 101>>,
   <<34, 83, 101, 114>>, <<>>}

JsonInputs ==
  {Quote(t) : t \in QuotableTexts}
    \cup {(<<32>> \o Quote(SerumText)) \o <<10>>}
    \cup NotStrings \cup {<<110, 117, 108, 108>>}

\* key.UnmarshalText(data) on a receiver holding p
CallUnmarshalTextInto(p, data, r) ==
  /\ Returned("UnmarshalText", <<data, p>>, r)
  /\ UNCHANGED <<curve, pdaVars>>

\* key.UnmarshalJSON(data) on a receiver holding p
CallUnmarshalJSON(p, data, r) ==
  /\ Returned("UnmarshalJSON", <<data, p>>, r)
  /\ UNCHANGED <<curve, pdaVars>>

NextDecode ==
  \/ \E p \in PriorKeys, data \in TextInputs :
       CallUnmarshalTextInto(p, data, UnmarshalText(data))
  \/ \E p \in PriorKeys, data \in JsonInputs :
       CallUnmarshalJSON(p, data, UnmarshalJSON(p, data))

SpecDecode == InitKeys /\ [][NextDecode]_vars

\* ------------------------------------------------- seeds cut differently
\* Seed sequences of which several have the same bytes end to end: three
\* bytes cut in every way and with empty seeds put in, no bytes at all as
\* zero, one and two seeds, 33 bytes as one seed and as two, 16 bytes as 16
\* seeds, as 17 and as one.
SplitInputs ==
  { << <<1, 2, 3>> >>, << <<1>>, <<2, 3>> >>, << <<1, 2>>, <<3>> >>,
    << <<1>>, <<2>>, <<3>> >>, << <<>>, <<1, 2>>, <<>>, <<3>> >>,
    << <<3, 2, 1>> >>,
    <<>>, << <<>> >>, << <<>>, <<>> >>,
    <<Seed33>>, <<Seed32, <<7>> >>, << <<7>>, Seed32>>,
    Pad(MaxSeeds), Append(Pad(MaxSeeds), <<>>), <<Repeat(4, MaxSeeds)>> }

SplitOwners == {SystemProgramID, BPFLoaderUpgradeableProgramID, SeedPubkey}

\* caller p calls CreateProgramAddress on one of these sequences
CallCreateOnSplit(p) ==
  /\ pc[p] = "idle"
  /\ \E seeds \in SplitInputs, owner \in SplitOwners :
       LET r == CreateProgramAddress(seeds, owner)
       IN  /\ inSeeds' = [inSeeds EXCEPT ![p] = seeds]
           /\ programID' = [programID EXCEPT ![p] = owner]
           /\ ret' = [ret EXCEPT ![p] =
                        [address |-> r.address, bump |-> 0, err |-> r.err]]
  /\ call' = [call EXCEPT ![p] = "CreateProgramAddress"]
  /\ pc' = [pc EXCEPT ![p] = "done"]
  /\ UNCHANGED <<curve, backing, seedLen, bumpSeed, arg, attempts>>
  /\ UNCHANGED keyVars

\* two calls, one after the other or side by side
NextSplit ==
  \/ CallCreateOnSplit(1)
  \/ CallCreateOnSplit(2)
  \/ Return(1)
  \/ Return(2)

SpecSplit == Init /\ [][NextSplit]_vars

\* ---------------------------------------------------------- PublicKeySlice
\* keys a caller appends to its slice before the bound stops it
MaxSliceLen == 3

\* *slice = append(*slice, pubkey)
SliceAppend(s, pubkey) == Append(s, pubkey)

\* faulty variant: the test of Has inverted
UniqueAppend_Inverted(s, pubkey) ==
  IF Has(s, pubkey)
  THEN [slice |-> SliceAppend(s, pubkey), ok |-> TRUE]
  ELSE [slice |-> s, ok |-> FALSE]

\* PublicKeySlice.UniqueAppend: the slice afterwards and the value returned
UniqueAppend(s, pubkey) ==
  IF ~Has(s, pubkey)
  THEN [slice |-> SliceAppend(s, pubkey), ok |-> TRUE]
  ELSE [slice |-> s, ok |-> FALSE]

\* faulty variant: the list is exported as NativeProgramIDs
Receivers_Exported == {"keySlice", "nativeProgramIDs"}

\* The PublicKeySlice variables that code outside the package can take the
\* address of: its own.  nativeProgramIDs is not exported, and no function
\* of the package returns it or a pointer to it.
Receivers == {"keySlice"}

\* *ptr
Deref(ptr) == IF ptr = "nativeProgramIDs" THEN reserved ELSE keySlice

\* *ptr = val
Store(ptr, val) ==
  /\ reserved' = IF ptr = "nativeProgramIDs" THEN val ELSE reserved
  /\ keySlice' = IF ptr = "keySlice" THEN val ELSE keySlice

\* the length of the variable when the package was initialised
InitialLen(ptr) == IF ptr = "nativeProgramIDs" THEN Len(nativeProgramIDs) ELSE 0

SliceKeys == {BPFLoaderProgramID, ConfigProgramID, SeedPubkey}

SliceReturn(b) == [bytes |-> <<>>, err |-> NoError, panicked |-> FALSE, ok |-> b]

SliceStep(name, pubkey, r) ==
  /\ kcall' = name
  /\ kargs' = <<pubkey>>
  /\ kret' = r
  /\ UNCHANGED <<curve, pdaVars, seen>>

CallAppend ==
  \E ptr \in Receivers, pubkey \in SliceKeys :
    /\ Len(Deref(ptr)) < InitialLen(ptr) + MaxSliceLen
    /\ Store(ptr, SliceAppend(Deref(ptr), pubkey))
    /\ SliceStep("Append", pubkey, NoKeyReturn)

CallUniqueAppend ==
  \E ptr \in Receivers, pubkey \in SliceKeys :
    /\ Len(Deref(ptr)) < InitialLen(ptr) + MaxSliceLen
    /\ Store(ptr, UniqueAppend(Deref(ptr), pubkey).slice)
    /\ SliceStep("UniqueAppend", pubkey,
                 SliceReturn(UniqueAppend(Deref(ptr), pubkey).ok))

CallHas ==
  \E ptr \in Receivers, pubkey \in SliceKeys :
    /\ SliceStep("Has", pubkey, SliceReturn(Has(Deref(ptr), pubkey)))
    /\ UNCHANGED <<reserved, keySlice>>

\* isNativeProgramID is not exported: it runs as the owner test of
\* CreateProgramAddress
CallIsNativeProgramID ==
  \E key \in SliceKeys :
    /\ SliceStep("isNativeProgramID", key, SliceReturn(isNativeProgramID(key)))
    /\ UNCHANGED <<reserved, keySlice>>

NextSlice ==
  \/ CallAppend
  \/ CallUniqueAppend
  \/ CallHas
  \/ CallIsNativeProgramID

SpecSlice == Init /\ [][NextSlice]_vars

\* ------------------------------------------------------------- properties
\* the seeds the caller handed to FindProgramAddress
CallerSeeds == SubSeq(backing, 1, seedLen)

\* goroutine p has returned from FindProgramAddress without error
Found(p) ==
  /\ pc[p] = "done"
  /\ call[p] = "FindProgramAddress"
  /\ ret[p].err = NoError

\* the bumps in 1..255 for which CreateProgramAddress(seeds ++ [b], owner) succeeds
GoodBumps(seeds, owner) ==
  {b \in 1..MaxUint8 : CreateProgramAddress(Append(seeds, <<b>>), owner).err = NoError}

\* C1: whenever FindProgramAddress succeeds, the bump it returns is the
\* largest bump in 1..255 for which CreateProgramAddress(seeds ++ [bump],
\* owner) succeeds, and the address is the address of that call.
C1_LargestBump ==
  \A p \in Procs :
    Found(p) =>
      LET good == GoodBumps(CallerSeeds, programID[p])
      IN  /\ ret[p].bump \in good
          /\ \A b \in good : b <= ret[p].bump
          /\ ret[p].address =
               CreateProgramAddress(Append(CallerSeeds, <<ret[p].bump>>),
                                    programID[p]).address

\* a successful search that had to pass over bump 255
C1_Witness ==
  \E p \in Procs : Found(p) /\ ret[p].bump < MaxUint8 /\ ret[p].bump >= 1

\* C2: whenever FindProgramAddress returns (address, bump) without error, a
\* following CreateProgramAddress(seeds ++ [bump], owner) succeeds and
\* returns exactly that address.
C2_Rederivation ==
  \A p \in Procs :
    Found(p) =>
      CreateProgramAddress(Append(CallerSeeds, <<ret[p].bump>>), programID[p])
        = [address |-> ret[p].address, err |-> NoError]

\* a successful search over a non-empty seed sequence
C2_Witness ==
  \E p \in Procs : Found(p) /\ seedLen > 0 /\ ret[p].address # zeroPublicKey

\* goroutine p has returned from a direct call of CreateProgramAddress
Created(p) == pc[p] = "done" /\ call[p] = "CreateProgramAddress"

\* seed_1 ++ ... ++ seed_n, taken from the last seed backwards
RECURSIVE Flatten(_)
Flatten(seeds) ==
  IF seeds = <<>>
  THEN <<>>
  ELSE Flatten(SubSeq(seeds, 1, Len(seeds) - 1)) \o seeds[Len(seeds)]

\* SHA256(seed_1 ++ ... ++ seed_n ++ owner ++ "ProgramDerivedAddress")
PdaDigest(seeds, owner) == Sum256((Flatten(seeds) \o owner) \o PDA_MARKER)

SizesFit(seeds) ==
  /\ Len(seeds) <= MaxSeeds
  /\ \A i \in 1..Len(seeds) : Len(seeds[i]) <= MaxSeedLength

\* C3: every address CreateProgramAddress returns fails the curve-membership
\* test; whenever the digest is on the curve the call fails and returns the
\* zero key, with the invalid-seeds error when the digest was computed.
C3_OffCurve ==
  \A p \in Procs :
    Created(p) =>
      LET digest == PdaDigest(inSeeds[p], programID[p])
      IN  /\ ret[p].err = NoError =>
               /\ ~IsOnCurve(ret[p].address)
               /\ ~IsOnCurve(digest)
          /\ IsOnCurve(digest) =>
               /\ ret[p].err # NoError
               /\ ret[p].address = zeroPublicKey
               /\ (SizesFit(inSeeds[p]) /\ programID[p] \notin Natives) =>
                    ret[p].err = ErrInvalidSeeds

\* a call rejected because its digest is on the curve, where other digests
\* are not
C3_Witness ==
  \E p \in Procs :
    /\ Created(p)
    /\ ret[p].err = ErrInvalidSeeds
    /\ IsOnCurve(PdaDigest(inSeeds[p], programID[p]))
    /\ curve # Digests

\* C4: FindProgramAddress attempts the bumps 255, 254, ... one at a time in
\* strictly descending order, never 0 and none twice, and stops at the first
\* attempt that succeeds.  (Attempt i is bump 256 - i; while the scan goes on
\* its latest attempt has failed, so every attempt before the last failed.)
C4_DescendingScan ==
  \A p \in Procs :
    call[p] = "FindProgramAddress" =>
      LET n == Len(attempts[p])
          lastOK ==
            CreateProgramAddress(Append(CallerSeeds, attempts[p][n]),
                                 programID[p]).err = NoError
      IN  /\ n <= MaxUint8
          /\ \A i \in 1..n : attempts[p][i] = <<MaxUint8 + 1 - i>>
          /\ (n > 0 /\ pc[p] # "done") => ~lastOK
          /\ (n > 0 /\ pc[p] = "done") =>
                IF lastOK
                THEN ret[p].err = NoError /\ ret[p].bump = MaxUint8 + 1 - n
                ELSE ret[p].err # NoError /\ n = MaxUint8

\* a scan that stopped at a success after at least two failed attempts
C4_Witness ==
  \E p \in Procs : Found(p) /\ Len(attempts[p]) >= 3

\* C7: when CreateProgramAddress succeeds its address is
\* SHA256(seed_1 ++ ... ++ seed_n ++ owner ++ "ProgramDerivedAddress").
C7_DigestOfSeedsOwnerMarker ==
  \A p \in Procs :
    (Created(p) /\ ret[p].err = NoError) =>
      ret[p].address = PdaDigest(inSeeds[p], programID[p])

\* a success on several seeds, one of them empty and one of 32 bytes
C7_Witness ==
  \E p \in Procs :
    /\ Created(p)
    /\ ret[p].err = NoError
    /\ Len(inSeeds[p]) = MaxSeeds
    /\ inSeeds[p][MaxSeeds] = Seed32

\* C8: for every reserved owner and every seed sequence of at most 16 seeds
\* of at most 32 bytes each, CreateProgramAddress fails with the
\* illegal-owner error and returns the zero key.
C8_ReservedOwner ==
  \A p \in Procs :
    (Created(p) /\ programID[p] \in Natives /\ SizesFit(inSeeds[p])) =>
      /\ ret[p].err = ErrIllegalOwner(programID[p])
      /\ ret[p].address = zeroPublicKey

\* the last identifier of the reserved list refused as owner
C8_Witness ==
  \E p \in Procs :
    /\ Created(p)
    /\ programID[p] = SysVarStakeHistoryPubkey
    /\ SizesFit(inSeeds[p])
    /\ Len(inSeeds[p]) = MaxSeeds
    /\ ret[p].err = ErrIllegalOwner(SysVarStakeHistoryPubkey)

\* the error of the two size checks
SizeError == ErrorsNew("Max seed length exceeded")

\* C9: CreateProgramAddress fails whenever it is given more than 16 seeds or
\* a seed longer than 32 bytes, and the size checks reject nothing else:
\* with at most 16 seeds of at most 32 bytes the size error is not returned.
C9_SizeChecks ==
  \A p \in Procs :
    Created(p) =>
      IF SizesFit(inSeeds[p])
      THEN ret[p].err # SizeError
      ELSE ret[p].err = SizeError /\ ret[p].address = zeroPublicKey

\* 16 seeds, the last of exactly 32 bytes, accepted
C9_Witness ==
  \E p \in Procs :
    /\ Created(p)
    /\ Len(inSeeds[p]) = MaxSeeds
    /\ inSeeds[p][MaxSeeds] = Seed32
    /\ ret[p].err = NoError

\* what FindProgramAddress(seeds, owner) returns when nothing runs beside it
FindAlone(seeds, owner) ==
  LET good == GoodBumps(seeds, owner)
  IN  IF good = {}
      THEN NotFoundReturn(0)
      ELSE LET b == CHOOSE x \in good : \A y \in good : y <= x
           IN  FoundReturn(CreateProgramAddress(Append(seeds, <<b>>), owner), b)

\* C5: concurrent invocations of FindProgramAddress handed the same seeds
\* slice each return exactly what they return when run alone.
C5_SameAsAlone ==
  \A p \in Procs :
    (pc[p] = "done" /\ call[p] = "FindProgramAddress") =>
      ret[p] = FindAlone(CallerSeeds, programID[p])

\* C6: FindProgramAddress has no effect on its inputs: no step of it changes
\* the storage behind the caller's seeds slice, spare capacity included.
C6_InputsUntouched ==
  [][(pc[1] \in {"append", "create"}) => backing' = backing]_vars

\* the failure a call fails with first, "none" when it succeeds
FailureCause(seeds, owner) ==
  IF Len(seeds) > MaxSeeds THEN "too many seeds"
  ELSE IF \E i \in 1..Len(seeds) : Len(seeds[i]) > MaxSeedLength THEN "seed too long"
  ELSE IF owner \in Natives THEN "reserved owner"
  ELSE IF IsOnCurve(PdaDigest(seeds, owner)) THEN "digest on curve"
  ELSE "none"

\* C10: each failure cause of CreateProgramAddress has an error of its own:
\* the error a call failed with is not the error of any call that fails for
\* another cause.
C10_DistinctErrors ==
  \A p \in Procs :
    (Created(p) /\ ret[p].err # NoError) =>
      \A seeds \in CreateSeedInputs, owner \in CreateOwners :
        FailureCause(seeds, owner) \notin {"none", FailureCause(inSeeds[p], programID[p])}
          => CreateProgramAddress(seeds, owner).err # ret[p].err

\* C11: FindProgramAddress ends after at most 255 calls of
\* CreateProgramAddress and its counter never wraps: while it scans, the
\* counter is 255 less the attempts made and at least 1.  It fails if and
\* only if all 255 attempts fail, and then returns the not-found error, the
\* zero key and bump 0.
C11_BoundedScan ==
  \A p \in Procs :
    call[p] = "FindProgramAddress" =>
      LET n == Len(attempts[p])
      IN  /\ n <= MaxUint8
          /\ pc[p] = "append" => (bumpSeed[p] = MaxUint8 - n /\ bumpSeed[p] >= 1)
          /\ pc[p] = "create" => (bumpSeed[p] = MaxUint8 - n /\ bumpSeed[p] >= 1)
          /\ pc[p] = "done" =>
               LET failed == GoodBumps(CallerSeeds, programID[p]) = {}
               IN  /\ (ret[p].err # NoError) <=> failed
                   /\ failed =>
                        /\ n = MaxUint8
                        /\ ret[p] = [address |-> zeroPublicKey, bump |-> 0,
                                     err |-> ErrNotFound]

\* a scan over seeds and an owner that pass every check, on a curve that
\* holds every digest: all 255 attempts made, none succeeded
C11_Witness ==
  \E p \in Procs :
    /\ pc[p] = "done"
    /\ call[p] = "FindProgramAddress"
    /\ ret[p].err = ErrNotFound
    /\ Len(attempts[p]) = MaxUint8
    /\ programID[p] \notin Natives
    /\ SizesFit(Append(CallerSeeds, <<1>>))

\* C13: CreateWithSeed returns the seed-too-long error exactly when the seed
\* is longer than 32 bytes, and no error at all for a seed of 0 to 32
\* bytes, whatever the base and the owner.
C13_SeedLengthBoundary ==
  kcall = "CreateWithSeed" =>
    LET seed == kargs[2]
    IN  /\ (kret.err = ErrSeedTooLong) <=> (Len(seed) > 32)
        /\ (Len(seed) <= 32) <=> (kret.err = NoError)
        /\ ~kret.panicked

\* a seed of exactly 32 bytes was accepted
C13_Witness ==
  /\ kcall = "CreateWithSeed"
  /\ Len(kargs[2]) = 32
  /\ kret.err = NoError

\* C14: for a seed of at most 32 bytes CreateWithSeed returns the digest of
\* base ++ seed ++ owner, also for a reserved owner and also when the digest
\* is a curve point.
C14_DigestOfBaseSeedOwner ==
  (kcall = "CreateWithSeed" /\ Len(kargs[2]) <= 32) =>
    /\ kret.err = NoError
    /\ kret.bytes = Sum256(kargs[1] \o kargs[2] \o kargs[3])

\* success with a reserved owner and a digest on the curve
C14_Witness ==
  /\ kcall = "CreateWithSeed"
  /\ kret.err = NoError
  /\ kargs[3] \in Natives
  /\ kargs[2] # <<>>
  /\ IsOnCurve(kret.bytes)

\* C15: PublicKeyFromBytes returns, for an input of any length, 32 bytes:
\* the first min(len, 32) bytes of the input, then zeros.
C15_TruncateOrPad ==
  kcall = "PublicKeyFromBytes" =>
    LET in == kargs[1]
        n == IF Len(in) < 32 THEN Len(in) ELSE 32
    IN  /\ ~kret.panicked
        /\ kret.err = NoError
        /\ Len(kret.bytes) = 32
        /\ \A i \in 1..32 : kret.bytes[i] = IF i <= n THEN in[i] ELSE 0

\* a short input was padded
C15_Witness ==
  /\ kcall = "PublicKeyFromBytes"
  /\ Len(kargs[1]) \in 1..31
  /\ kret.bytes[Len(kargs[1])] # 0

\* the text is made of characters of the alphabet only
InAlphabet(text) == \A i \in 1..Len(text) : DigitOf(text[i]) >= 0

\* the number of bytes a text of alphabet characters stands for: one for
\* every leading '1' and those of the number the other characters write
DecodedLength(text) ==
  LET digits == [i \in 1..Len(text) |-> DigitOf(text[i])]
  IN  Leading(digits, 0) + Len(ToBase(digits, 58, 256))

\* C16: PublicKeyFromBase58 succeeds if and only if the text is made of
\* alphabet characters and stands for exactly 32 bytes; every failure comes
\* with the all-zero key, never with a cut or padded one.
C16_ExactLengthOrZeroKey ==
  kcall = "PublicKeyFromBase58" =>
    LET text == kargs[1]
    IN  /\ (kret.err = NoError) <=> (InAlphabet(text) /\ DecodedLength(text) = 32)
        /\ kret.err # NoError => kret.bytes = zeroPublicKey
        /\ Len(kret.bytes) = 32
        /\ ~kret.panicked

\* a text of alphabet characters that stands for fewer than 32 bytes was
\* refused
C16_Witness ==
  /\ kcall = "PublicKeyFromBase58"
  /\ InAlphabet(kargs[1])
  /\ DecodedLength(kargs[1]) \in 1..31
  /\ kret.err # NoError

\* C17: the text of a key decodes back to the key, with PublicKeyFromBase58
\* and with UnmarshalText, and the key a text decoded to is written as that
\* text again.
C17_TextRoundTrip ==
  /\ kcall \in {"MarshalText", "String"} =>
       /\ kret.err = NoError
       /\ PublicKeyFromBase58(kret.bytes) =
            [bytes |-> kargs[1], err |-> NoError, panicked |-> FALSE]
       /\ UnmarshalText(kret.bytes) =
            [bytes |-> kargs[1], err |-> NoError, panicked |-> FALSE]
  /\ (kcall \in {"PublicKeyFromBase58", "UnmarshalText"} /\ kret.err = NoError) =>
       /\ MarshalText(kret.bytes).bytes = kargs[1]
       /\ String(kret.bytes) = kargs[1]

\* a key with leading zero bytes, other than the zero key, was written
C17_Witness ==
  /\ kcall = "MarshalText"
  /\ kargs[1][1] = 0
  /\ kargs[1] # zeroPublicKey
  /\ kret.bytes[1] = 49

\* C18: PrivateKeyFromBase58 fails on a text with a character outside the
\* alphabet and on a text that does not stand for 64 bytes; what it returns
\* without error has 64 bytes.
C18_SizedPrivateKey ==
  kcall = "PrivateKeyFromBase58" =>
    /\ ~InAlphabet(kargs[1]) => kret.err # NoError
    /\ kret.err = NoError => Len(kret.bytes) = 64

\* C19: PrivateKeyFromSolanaKeygenFile fails on a content that is no JSON
\* array of byte values and on an array that does not have 64 elements; on
\* success the key holds the bytes of the array, in order.
C19_SizedKeygenFile ==
  kcall = "PrivateKeyFromSolanaKeygenFile" =>
    /\ kret.err = NoError =>
         /\ Len(kret.bytes) = 64
         /\ Len(kargs) = 1
         /\ Trim(kargs[1]) = JsonArrayText(kret.bytes)

\* C20: PublicKey() on a private key that generation or an import returned
\* does not panic and copies 32 bytes of the private key into its result.
C20_TotalPublicKey ==
  kcall = "PublicKey" =>
    /\ ~kret.panicked
    /\ Len(kret.bytes) = 32
    /\ Len(kargs[1]) - 32 >= 32

C21_SignReturns ==
  kcall = "Sign" =>
    /\ ~kret.panicked
    /\ kret.err = NoError => Len(kret.bytes) = 64

\* C22: FindAssociatedTokenAddress(wallet, mint) returns what
\* FindProgramAddress returns on [wallet, token program id, mint] and the
\* associated-token program id, and FindTokenMetadataAddress(mint) what it
\* returns on ["metadata", metadata program id, mint] and the metadata
\* program id: address, bump and error.
C22_HelpersAreFind ==
  \A p \in Procs :
    pc[p] = "done" =>
      /\ call[p] = "FindAssociatedTokenAddress" =>
           ret[p] = FindAlone(<<inSeeds[p][1], TokenProgramID, inSeeds[p][2]>>,
                              SPLAssociatedTokenAccountProgramID)
      /\ call[p] = "FindTokenMetadataAddress" =>
           ret[p] = FindAlone(<<MetadataText, TokenMetadataProgramID, inSeeds[p][1]>>,
                              TokenMetadataProgramID)

\* FindAssociatedTokenAddress has returned an address after an attempt of
\* its scan had failed
C22_Witness ==
  \E p \in Procs :
    /\ pc[p] = "done"
    /\ call[p] = "FindAssociatedTokenAddress"
    /\ ret[p].err = NoError
    /\ ret[p].bump < MaxUint8

\* C23: no command aborts on the text the user typed: the commands that
\* take an address as their argument decode it without panicking, whatever
\* the text is.
C23_NoAbortOnUserText ==
  kcall \in {"getProgramAccountsCmd", "getBalanceCmd"} => ~kret.panicked

\* the keys a slice holds
Held(s) == {s[i] : i \in 1..Len(s)}

\* no key stands twice in the slice
NoKeyTwice(s) == \A i, j \in 1..Len(s) : s[i] = s[j] => i = j

\* C24: on a PublicKeySlice, Append grows the length by one and adds the
\* key to those Has is true for; UniqueAppend of an absent key does the
\* same and returns true, UniqueAppend of a key that is present returns
\* false and leaves the slice as it is, so a slice without a key held twice
\* stays so; Has is true exactly for the keys the slice holds.
C24_SliceOperations ==
  [][LET k == kargs'[1]
     IN  /\ kcall' = "Append" =>
              /\ Len(keySlice') = Len(keySlice) + 1
              /\ Held(keySlice') = Held(keySlice) \cup {k}
         /\ kcall' = "UniqueAppend" =>
              /\ k \notin Held(keySlice) =>
                   /\ kret'.ok
                   /\ Len(keySlice') = Len(keySlice) + 1
                   /\ Held(keySlice') = Held(keySlice) \cup {k}
              /\ k \in Held(keySlice) => (~kret'.ok /\ keySlice' = keySlice)
              /\ NoKeyTwice(keySlice) => NoKeyTwice(keySlice')
         /\ kcall' = "Has" =>
              /\ kret'.ok <=> k \in Held(keySlice)
              /\ keySlice' = keySlice]_vars

\* UniqueAppend has refused a key that the slice holds
C24_Witness ==
  /\ kcall = "UniqueAppend"
  /\ ~kret.ok
  /\ kargs[1] \in Held(keySlice)
  /\ Len(keySlice) >= 2

\* C25: the reserved list is the one the package was initialised with,
\* same keys in the same order, after every sequence of calls, and the
\* reserved-owner test answers for every key as it did at the start.
C25_ReservedListFixed ==
  /\ reserved = nativeProgramIDs
  /\ \A key \in SliceKeys \cup Natives : isNativeProgramID(key) <=> key \in Natives

\* a caller has appended a reserved key and another key to a slice of its
\* own, and the owner test has run since
C25_Witness ==
  /\ kcall = "isNativeProgramID"
  /\ BPFLoaderProgramID \in Held(keySlice)
  /\ SeedPubkey \in Held(keySlice)
  /\ ~isNativeProgramID(SeedPubkey)

\* C26: CreateProgramAddress tests the seed count, the seed lengths, the
\* owner and the curve in this order and returns the error of the first
\* test that fails: a call with an over-long seed and a reserved owner
\* fails with the seed error and not with the illegal-owner error, and a
\* call that fails one of the first three tests returns the zero key with
\* that test's error whether or not the digest of its input is on the curve.
C26_FirstViolatedCheck ==
  \A p \in Procs :
    Created(p) =>
      LET seeds == inSeeds[p]
          owner == programID[p]
          cause == FailureCause(seeds, owner)
          tooLong == \E i \in 1..Len(seeds) : Len(seeds[i]) > MaxSeedLength
      IN  /\ cause = "too many seeds" => ret[p].err = ErrTooManySeeds
          /\ cause = "seed too long" => ret[p].err = ErrSeedTooLong
          /\ cause = "reserved owner" => ret[p].err = ErrIllegalOwner(owner)
          /\ cause = "digest on curve" => ret[p].err = ErrInvalidSeeds
          /\ cause = "none" => ret[p].err = NoError
          /\ (tooLong /\ owner \in Natives) =>
               /\ ret[p].err = ErrSeedTooLong
               /\ ret[p].err # ErrIllegalOwner(owner)
          /\ cause \in {"too many seeds", "seed too long", "reserved owner"} =>
               /\ ret[p].err # ErrInvalidSeeds
               /\ ret[p].address = zeroPublicKey

\* a call with an over-long seed, a reserved owner and a digest on the
\* curve has failed with the seed error
C26_Witness ==
  \E p \in Procs :
    /\ Created(p)
    /\ Len(inSeeds[p]) <= MaxSeeds
    /\ \E i \in 1..Len(inSeeds[p]) : Len(inSeeds[p][i]) > MaxSeedLength
    /\ programID[p] \in Natives
    /\ IsOnCurve(PdaDigest(inSeeds[p], programID[p]))
    /\ ret[p].err = ErrSeedTooLong

\* the caller's seeds or the owner make every attempt of a scan fail
Hopeless(seeds, owner) ==
  \/ Len(seeds) >= MaxSeeds
  \/ \E i \in 1..Len(seeds) : Len(seeds[i]) > MaxSeedLength
  \/ owner \in Natives

\* C27: FindProgramAddress succeeds only for at most 15 caller seeds of at
\* most 32 bytes each and an owner that is not reserved; with 16 seeds, an
\* over-long seed or a reserved owner it makes all 255 attempts, one for
\* each bump from 255 down to 1, and returns the not-found error with the
\* zero key and bump 0, not the error CreateProgramAddress gave.
C27_HopelessScan ==
  \A p \in Procs :
    (pc[p] = "done" /\ call[p] = "FindProgramAddress") =>
      /\ ret[p].err = NoError => ~Hopeless(CallerSeeds, programID[p])
      /\ Hopeless(CallerSeeds, programID[p]) =>
           /\ Len(attempts[p]) = MaxUint8
           /\ \A i \in 1..Len(attempts[p]) : attempts[p][i] = <<MaxUint8 + 1 - i>>
           /\ ret[p] = NotFoundReturn(0)
           /\ ret[p].err = ErrNotFound
           /\ ret[p].err #
                CreateProgramAddress(Append(CallerSeeds, <<1>>), programID[p]).err

\* on a curve that holds no digest, a scan with 16 caller seeds and an owner
\* that is not reserved has failed after 255 attempts
C27_Witness ==
  \E p \in Procs :
    /\ pc[p] = "done"
    /\ call[p] = "FindProgramAddress"
    /\ curve = {}
    /\ Len(CallerSeeds) = MaxSeeds
    /\ programID[p] \notin Natives
    /\ Len(attempts[p]) = MaxUint8
    /\ ret[p].err = ErrNotFound

\* C28: two calls of CreateProgramAddress with the same owner, on seed
\* sequences that both pass the size checks and hold the same bytes end to
\* end, return the same address and the same error.
C28_ConcatenationOnly ==
  ( /\ Created(1)
    /\ Created(2)
    /\ programID[1] = programID[2]
    /\ SizesFit(inSeeds[1])
    /\ SizesFit(inSeeds[2])
    /\ Flatten(inSeeds[1]) = Flatten(inSeeds[2]) )
  => ret[1] = ret[2]

\* the bytes 1 2 3 cut behind the second byte and behind the first, with an
\* owner that is not reserved, have given one address
C28_Witness ==
  /\ Created(1)
  /\ Created(2)
  /\ inSeeds[1] = << <<1, 2>>, <<3>> >>
  /\ inSeeds[2] = << <<1>>, <<2, 3>> >>
  /\ programID[1] = SeedPubkey
  /\ programID[2] = SeedPubkey
  /\ ret[1].err = NoError
  /\ ret[1].address = ret[2].address

====
